---------------------------- MODULE Spec2Model ----------------------------
(***************************************************************************)
(* Model of gnvim's redraw dispatcher (src/ui/ui.rs) and of the grid       *)
(* context it drives (src/ui/grid/context.rs).                             *)
(*                                                                         *)
(* One step of the model is one element of a redraw event handled by       *)
(* handle_redraw_event (one iteration of the `for event in events` loop,   *)
(* one element of the event's own vector), one firing of a glib timeout,   *)
(* one drawing-area resize signal, or one message taken from the channel.  *)
(* All of them run on the single GTK main-loop thread; `dispatch` tells    *)
(* whether the thread is inside handle_redraw_event.                       *)
(*                                                                         *)
(* f64 pixel values are multiples of 1/2 (line_space / 2.0 is the only     *)
(* fraction taken); they are held as integers in HALF pixels.              *)
(***************************************************************************)
EXTENDS Integers, Sequences, FiniteSets, TLC

\* ------------------------------------------------------------------------
\* Option<T>: None is the empty sequence, Some(v) the one-element sequence.
None == << >>
Some(v) == << v >>
IsSome(o) == o # << >>
Unwrap(o) == o[1]

\* ------------------------------------------------------------------------
\* Bounds of the model.

\* glib source ids handed out by gtk::timeout_add during one run.
MaxSources == 2

\* ------------------------------------------------------------------------
\* Fonts.  A guifont option value "name:hN" is held split in its parts:
\* the name and the height option (None when absent; a height that is not
\* a positive number is held as 0).
DEFAULT_HEIGHT == 14

Font_default == [name |-> "Monospace", height |-> DEFAULT_HEIGHT]

Font_from_guifont(s) ==
    IF s.name = "" \/ (IsSome(s.h) /\ Unwrap(s.h) <= 0)
    THEN None
    ELSE Some([name   |-> s.name,
               height |-> IF IsSome(s.h) THEN Unwrap(s.h) ELSE DEFAULT_HEIGHT])

\* Font::from_guifont("Monospace:h12").unwrap() of Context::new.
InitialFont == Unwrap(Font_from_guifont([name |-> "Monospace", h |-> Some(12)]))

\* Guifont values the remote process sends.
GuiFonts ==
    { [name |-> "Monospace", h |-> Some(12)],
      [name |-> "Fira",      h |-> Some(16)],
      [name |-> "Fira",      h |-> Some(0)] }

\* Line-space values the remote process sends.
LineSpaces == {0, 3}

\* pango's font metrics (ascent, descent, approximate digit width), in
\* whole pixels after the division by pango::SCALE.
PangoMetrics(font) ==
    [ascent      |-> font.height,
     descent     |-> font.height \div 4,
     digit_width |-> font.height \div 2]

\* CellMetrics::update: ascent, decent, height, width in half pixels.
CellMetrics_update_no_extra(cm) ==
    LET fm    == PangoMetrics(cm.font)
    IN  [cm EXCEPT !.ascent = 2 * fm.ascent,
                   !.decent = 2 * fm.descent,
                   !.height = 2 * fm.ascent + 2 * fm.descent,
                   !.width  = 2 * fm.digit_width]

CellMetrics_update(cm) ==
    LET fm    == PangoMetrics(cm.font)
        extra == cm.line_space      \* line_space / 2.0, in half pixels
        asc   == 2 * fm.ascent + extra
        dec   == 2 * fm.descent + extra
    IN  [cm EXCEPT !.ascent = asc,
                   !.decent = dec,
                   !.height = asc + dec,
                   !.width  = 2 * fm.digit_width]

\* `x as i32` of a non-negative f64 held in half pixels.
AsI32(halfpx) == halfpx \div 2

\* Context::update_metrics(font, line_space, da).
Context_update_metrics_keeps_font(ctx, font, line_space) ==
    [ctx EXCEPT !.cell_metrics =
        CellMetrics_update([ctx.cell_metrics EXCEPT !.line_space = line_space])]

Context_update_metrics_deferred(ctx, font, line_space) ==
    [ctx EXCEPT !.cell_metrics_update =
        Some(CellMetrics_update([ctx.cell_metrics EXCEPT
                                    !.font = font,
                                    !.line_space = line_space]))]

Context_update_metrics(ctx, font, line_space) ==
    [ctx EXCEPT !.cell_metrics =
        CellMetrics_update([ctx.cell_metrics EXCEPT !.font = font,
                                                    !.line_space = line_space])]

\* render::get_coords(height, width, row, col): the pixel position (x, y) of
\* the cell at (row, col).
render_get_coords(height, width, row, col) == << col * width, row * height >>

\* A cell of a row (src/ui/grid/row.rs): its text, its highlight id and
\* whether it belongs to a double-width run, which covers two columns.
Cell_blank == [text |-> " ", hl_id |-> 0, double_width |-> FALSE]

\* A row of `width` blank cells; columns are counted from 0.
Row_new(width) == [c \in 1..width |-> Cell_blank]

\* Row::leaf_at(at): the run covering column `at`.
Row_leaf_at(row, at) == row[at + 1]

\* `self.rows.get(self.cursor.0).and_then(|row|
\* Some(row.leaf_at(self.cursor.1 + 1).double_width())).unwrap_or(false)`.
cursor_double_width_lenient(ctx) ==
    IF ctx.cursor[1] < Len(ctx.rows)
    THEN Row_leaf_at(ctx.rows[ctx.cursor[1] + 1],
                     ctx.cursor[2] + 1).double_width
    ELSE TRUE

cursor_double_width(ctx) ==
    IF ctx.cursor[1] < Len(ctx.rows)
    THEN Row_leaf_at(ctx.rows[ctx.cursor[1] + 1],
                     ctx.cursor[2] + 1).double_width
    ELSE FALSE

\* Context::get_cursor_rect: (x, y, width, height), in half pixels.
Context_get_cursor_rect_single(ctx) ==
    LET cm == ctx.cell_metrics
        xy == render_get_coords(cm.height, cm.width, ctx.cursor[1],
                                ctx.cursor[2])
    IN  << xy[1], xy[2], cm.width, cm.height >>

Context_get_cursor_rect(ctx) ==
    LET cm == ctx.cell_metrics
        xy == render_get_coords(cm.height, cm.width, ctx.cursor[1],
                                ctx.cursor[2])
    IN  << xy[1], xy[2],
           IF cursor_double_width(ctx) THEN cm.width * 2 ELSE cm.width,
           cm.height >>

\* Context::update(da): the surface is reallocated and the cell metrics
\* are computed again from the stored font and line space.
Context_update(ctx) ==
    [ctx EXCEPT !.cell_metrics = CellMetrics_update(@)]

\* Context::new: the context of a freshly created grid.
Context_new ==
    [cell_metrics |->
        CellMetrics_update([height |-> 0, width |-> 0, ascent |-> 0,
                            decent |-> 0, line_space |-> 0,
                            font |-> InitialFont]),
     cell_metrics_update |-> None,
     rows   |-> << >>,
     cursor |-> << 0, 0 >>,
     busy   |-> FALSE,
     active |-> FALSE,
     mode   |-> None]

\* ------------------------------------------------------------------------
\* Grid operations (src/ui/grid/grid.rs), each on the grid's context.
Grid_new(id) == Context_new

Grid_set_active(grid, active) == [grid EXCEPT !.active = active]
Grid_cursor_goto(grid, row, col) == [grid EXCEPT !.cursor = << row, col >>]
Grid_set_busy(grid, busy) == [grid EXCEPT !.busy = busy]
Grid_set_mode(grid, mode) == [grid EXCEPT !.mode = Some(mode)]
\* Grid::resize: `height` rows of `width` cells; the cells the grid held at
\* positions that remain are kept, the newly exposed ones are blank.
Grid_resize(grid, width, height) ==
    [grid EXCEPT !.rows =
        [r \in 1..height |->
            [c \in 1..width |->
                IF r <= Len(grid.rows) /\ c <= Len(grid.rows[r])
                THEN grid.rows[r][c]
                ELSE Cell_blank]]]

\* Grid::put_line: the cells of `line` overwrite the row line.row from
\* column line.col_start on; a line for a row the grid does not hold is
\* dropped.
Grid_put_line(grid, line) ==
    IF line.row >= Len(grid.rows)
    THEN grid
    ELSE [grid EXCEPT !.rows[line.row + 1] =
            [c \in 1..Len(@) |->
                IF c > line.col_start /\ c <= line.col_start + Len(line.cells)
                THEN line.cells[c - line.col_start]
                ELSE @[c]]]

\* Grid::clear: every cell is blank.
Grid_clear(grid) ==
    [grid EXCEPT !.rows = [r \in 1..Len(@) |-> Row_new(Len(@[r]))]]

\* Whether the cell at (row, col) lies in the region (top, bot, left, right),
\* whose bottom row and right column are exclusive.
InRegion(reg, row, col) ==
    /\ reg[1] <= row /\ row < reg[2]
    /\ reg[3] <= col /\ col < reg[4]

\* Grid::scroll: the cells of the region are shifted by (rows, cols); the
\* cells of the region nothing is shifted into are blank.
Grid_scroll(grid, reg, rows, cols) ==
    [grid EXCEPT !.rows =
        [r \in 1..Len(grid.rows) |->
            [c \in 1..Len(grid.rows[r]) |->
                IF ~InRegion(reg, r - 1, c - 1)
                THEN grid.rows[r][c]
                ELSE IF InRegion(reg, r - 1 - rows, c - 1 - cols)
                THEN grid.rows[r - rows][c - cols]
                ELSE Cell_blank]]]

\* Grid::get_cursor_rect.
Grid_get_cursor_rect(grid) == Context_get_cursor_rect(grid)
Grid_get_font(grid) == grid.cell_metrics.font
Grid_get_line_space(grid) == grid.cell_metrics.line_space
Grid_update_cell_metrics(grid, font, line_space) ==
    Context_update_metrics(grid, font, line_space)

\* Grid::calc_size: (cols, rows) from the drawing area's allocated pixel
\* size and the current cell metrics.
Grid_calc_size(grid, da) ==
    << da[1] \div AsI32(grid.cell_metrics.width),
       da[2] \div AsI32(grid.cell_metrics.height) >>


\* ------------------------------------------------------------------------
\* Highlights and the highlight table (HlDefs).
Colors == {0, 1, 2}

Color_default == 0

Highlight_default ==
    [foreground |-> None, background |-> None, special |-> None,
     bold |-> FALSE, italic |-> FALSE, underline |-> FALSE,
     reverse |-> FALSE]

\* Highlight definitions the remote process sends.
HlBold == [Highlight_default EXCEPT !.foreground = Some(1), !.bold = TRUE]
HlReverse == [Highlight_default EXCEPT !.background = Some(2), !.reverse = TRUE]

HlDefs_default ==
    [hl_defs    |-> << >>,
     default_fg |-> Color_default,
     default_bg |-> Color_default,
     default_sp |-> Color_default]

HlDefs_get(defs, id) ==
    IF id \in DOMAIN defs.hl_defs THEN Some(defs.hl_defs[id]) ELSE None

HlDefs_insert_keeps_first(defs, id, hl) ==
    IF id \in DOMAIN defs.hl_defs
    THEN defs
    ELSE [defs EXCEPT !.hl_defs = (id :> hl) @@ defs.hl_defs]

\* Of two Option values, the first that is Some.
Option_or(a, b) == IF IsSome(a) THEN a ELSE b

HlDefs_insert_merges(defs, id, hl) ==
    IF id \in DOMAIN defs.hl_defs
    THEN LET old == defs.hl_defs[id]
         IN  [defs EXCEPT !.hl_defs[id] =
                 [hl EXCEPT !.foreground = Option_or(hl.foreground,
                                                     old.foreground),
                            !.background = Option_or(hl.background,
                                                     old.background),
                            !.special = Option_or(hl.special, old.special)]]
    ELSE [defs EXCEPT !.hl_defs = (id :> hl) @@ defs.hl_defs]

HlDefs_insert(defs, id, hl) ==
    [defs EXCEPT !.hl_defs = (id :> hl) @@ defs.hl_defs]

\* `hl.foreground = Some(*fg); hl.background = Some(*bg);
\* hl.special = Some(*sp);` on the entry HlDefs::get_mut returned.
Highlight_set_colors_resets(hl, fg, bg, sp) ==
    [Highlight_default EXCEPT !.foreground = Some(fg),
                              !.background = Some(bg),
                              !.special = Some(sp)]

Highlight_set_colors(hl, fg, bg, sp) ==
    [hl EXCEPT !.foreground = Some(fg),
               !.background = Some(bg),
               !.special = Some(sp)]

\* ------------------------------------------------------------------------
\* State.
VARIABLES
    grids,              \* UIState::grids: grid id -> grid
    hl_defs,            \* UIState::hl_defs
    mode_infos,         \* UIState::mode_infos
    current_grid,       \* UIState::current_grid
    resize_source_id,   \* UIState::resize_source_id
    resize_on_flush,    \* UIState::resize_on_flush
    da_size,            \* allocated (width, height) of grid 1's drawing area
    sources,            \* glib: armed timeout source id -> its (rows, cols)
    next_source,        \* glib: the next source id timeout_add returns
    dispatch,           \* "idle", "redraw" inside handle_redraw_event, or
                        \* "closed" once the receiver is detached
    crashed,            \* a panic has ended the process
    messages,           \* MessagesHandler: the messages and the container
    last,               \* history: what the last step did
    batch,              \* history: what arrived since the last Flush
    resizes             \* history: the resize signals and requests so far

uiVars    == << grids, hl_defs, mode_infos, current_grid, resize_on_flush >>
timerVars == << resize_source_id, sources, next_source, resizes >>
vars == << grids, hl_defs, mode_infos, current_grid, resize_source_id,
           resize_on_flush, da_size, sources, next_source, dispatch,
           crashed, messages, last, batch, resizes >>

\* Drawing-area sizes the window system allocates, in pixels.
InitialDaSize == << 48, 60 >>
DaSizes == { InitialDaSize, << 96, 60 >> }

\* What a step did: the event, the grid it addressed (0: none), whether that
\* grid was missing, the ui_try_resize requests it sent, the number of
\* update_cell_metrics calls per grid, the highlight a put_line found for
\* the line's highlight id, the source id it took out of resize_source_id
\* and passed to source_remove, (at Flush) the batch the Flush closed and
\* grid 1's calc_size() before the Flush, the event's payload, whether the
\* request it sent was answered with an error, the highlight table each
\* grid was redrawn with, (at a timer expiry) the number of resize
\* signals the expired debounce window had taken, the cell metrics each
\* grid was flushed (painted) with, and the command sent to the remote
\* process.
LastOf(ev) ==
    [ev |-> ev, grid |-> 0, missing |-> FALSE, sent |-> << >>,
     updates |-> [g \in DOMAIN grids |-> 0], seen |-> None, batch |-> None,
     removed |-> None, pre_size |-> None, arg |-> None, failed |-> FALSE,
     redraws |-> [g \in DOMAIN grids |-> None], run |-> 0,
     flushed |-> [g \in DOMAIN grids |-> None], cmd |-> None]

EmptyBatch == [font |-> None, line_space |-> None, n |-> 0, defs |-> << >>]

\* No resize signal is waiting for its timer, no request has failed, and
\* the timer armed last (if any) has not fired.
NoResizes == [run |-> 0, failed |-> FALSE, fired |-> None]

\* MessagesHandler::new: no message, the container hidden.
MessagesHandler_new == [messages |-> << >>, visible |-> FALSE]

\* UI::init.
Init ==
    /\ grids = (1 :> Grid_new(1))
    /\ hl_defs = HlDefs_insert(HlDefs_default, 0, Highlight_default)
    /\ mode_infos = << >>
    /\ current_grid = 1
    /\ resize_source_id = None
    /\ resize_on_flush = None
    /\ da_size = InitialDaSize
    /\ sources = << >>
    /\ next_source = 1
    /\ dispatch = "idle"
    /\ crashed = FALSE
    /\ messages = MessagesHandler_new
    /\ last = [ev |-> "Init", grid |-> 0, missing |-> FALSE, sent |-> << >>,
               updates |-> (1 :> 0), seen |-> None, batch |-> None,
               removed |-> None, pre_size |-> None, arg |-> None,
               failed |-> FALSE, redraws |-> (1 :> None), run |-> 0,
               flushed |-> (1 :> None), cmd |-> None]
    /\ batch = EmptyBatch
    /\ resizes = NoResizes

\* ------------------------------------------------------------------------
\* The GTK main loop.

\* `f` without the key k.
Without(f, k) == [x \in DOMAIN f \ {k} |-> f[x]]

\* glib::source::source_remove(id).
source_remove_keeps(srcs, id) == srcs

source_remove(srcs, id) == Without(srcs, id)

\* The closure of the source `id` returns Continue(again): glib keeps the
\* source armed when `again`, and removes it otherwise.
Continue_always(srcs, id, again) == srcs

Continue(srcs, id, again) == IF again THEN srcs ELSE Without(srcs, id)

\* gtk::timeout_add(30, closure): the source `id` is armed; its closure has
\* captured the (rows, cols) of the resize signal.
timeout_add_swapped(srcs, id, rows, cols) ==
    (id :> [rows |-> cols, cols |-> rows]) @@ srcs

timeout_add(srcs, id, rows, cols) ==
    (id :> [rows |-> rows, cols |-> cols]) @@ srcs

\* nvim.ui_try_resize_async(cols, rows).call(): the requests written to the
\* remote process.
ui_try_resize_async_swapped(cols, rows) == << [cols |-> rows, rows |-> cols] >>

ui_try_resize_async(cols, rows) == << [cols |-> cols, rows |-> rows] >>

\* Option::take: what is left behind.
Option_take_keeps(o) == o

Option_take(o) == None

\* The main loop runs a timeout closure or a signal handler: the thread is
\* not inside handle_redraw_event.
MainLoop_any == TRUE

MainLoop == dispatch \in {"idle", "closed"}

\* The closure given to rx.attach returns Continue(again): the receiver
\* stays attached when `again`, and is detached otherwise.
rx_Continue_always(again) == "idle"

rx_Continue(again) == IF again THEN "idle" ELSE "closed"

\* rx.attach: a Message::Close is taken from the channel: the window is
\* closed and the receiver detached.
Close ==
    /\ ~crashed /\ dispatch = "idle"
    /\ dispatch' = rx_Continue(FALSE)
    /\ last' = LastOf("Close")
    /\ UNCHANGED << uiVars, timerVars, da_size, messages, crashed, batch >>

\* rx.attach: a Notify::RedrawEvent message is taken from the channel.
BeginRedraw ==
    /\ ~crashed /\ dispatch = "idle"
    /\ dispatch' = "redraw"
    /\ last' = LastOf("BeginRedraw")
    /\ UNCHANGED << uiVars, timerVars, da_size, messages, crashed, batch >>

\* handle_redraw_event returns: the for loop over the events has ended.
EndRedraw ==
    /\ ~crashed /\ dispatch = "redraw"
    /\ dispatch' = rx_Continue(TRUE)
    /\ last' = LastOf("EndRedraw")
    /\ UNCHANGED << uiVars, timerVars, da_size, messages, crashed, batch >>

\* The 33 ms timeout of UI::start: tick the current grid.
Tick ==
    /\ ~crashed /\ MainLoop
    /\ crashed' = (current_grid \notin DOMAIN grids)
    /\ last' = [LastOf("Tick") EXCEPT !.grid = current_grid,
                    !.missing = (current_grid \notin DOMAIN grids)]
    /\ UNCHANGED << uiVars, timerVars, da_size, messages, dispatch, batch >>

\* grid.connect_da_resize closure: the drawing area of grid 1 got `size`;
\* the grid updates its context for the new surface and hands the closure
\* the (rows, cols) that fit the new allocation.
DaResize(size) ==
    /\ ~crashed /\ MainLoop
    /\ next_source <= MaxSources
    /\ da_size' = size
    /\ grids' = [grids EXCEPT ![1] = Context_update(@)]
    /\ LET cr  == Grid_calc_size(grids'[1], size)
           new == next_source
           old == resize_source_id
           kept == IF IsSome(old) THEN source_remove(sources, Unwrap(old))
                   ELSE sources
       IN  /\ sources' = timeout_add(kept, new, cr[2], cr[1])
           /\ resize_source_id' = Some(new)
           /\ next_source' = next_source + 1
           /\ resizes' = [resizes EXCEPT !.run = @ + 1, !.fired = None]
           /\ last' = [LastOf("DaResize") EXCEPT !.removed = old,
                                                 !.arg = Some(size)]
    /\ UNCHANGED << hl_defs, mode_infos, current_grid, resize_on_flush,
                    messages, dispatch, crashed, batch >>

\* The 30 ms timeout armed by the resize closure fires; `ok` tells whether
\* the remote process answers the request with Ok or with Err, which the
\* request's callback logs.
ResizeTimeout(id, ok) ==
    /\ ~crashed /\ MainLoop
    /\ id \in DOMAIN sources
    /\ last' = [LastOf("ResizeTimeout") EXCEPT
                    !.sent = ui_try_resize_async(sources[id].cols,
                                                 sources[id].rows),
                    !.arg = Some(id),
                    !.failed = ~ok,
                    !.run = resizes.run]
    /\ resize_source_id' = Option_take(resize_source_id)
    /\ sources' = Continue(sources, id, FALSE)
    /\ resizes' = [run    |-> 0,
                   failed |-> resizes.failed \/ ~ok,
                   fired  |-> Some(id)]
    /\ UNCHANGED << uiVars, next_source, da_size, messages, dispatch,
                    crashed, batch >>

\* ------------------------------------------------------------------------
\* handle_redraw_event, one event element per step.

Handling == ~crashed /\ dispatch = "redraw"

\* `state.grids.get(&id).unwrap()` on an id the collection does not hold:
\* the handler panics before it has changed anything.
PanicOnGrid(ev, g) ==
    /\ crashed' = TRUE
    /\ last' = [LastOf(ev) EXCEPT !.grid = g, !.missing = TRUE]
    /\ UNCHANGED << uiVars, timerVars, da_size, messages, dispatch, batch >>

\* The cells of a line to put: `ln` gives the row, the first column and
\* the texts, where the text "W" is a double-width character, followed by
\* its empty continuation cell; all cells use highlight id `hl_id`.
LineCells(ln, hl_id) ==
    [i \in 1..Len(ln.texts) |->
        [text |-> ln.texts[i], hl_id |-> hl_id,
         double_width |-> ln.texts[i] \in {"W", ""}]]

\* RedrawEvent::GridLine: one line, whose cells use highlight id `hl_id`.
GridLine_sets_pending(g, hl_id, ln) ==
    /\ Handling
    /\ g \in DOMAIN grids
    /\ grids' = [grids EXCEPT ![g] =
           Grid_put_line(@, [row |-> ln.row, col_start |-> ln.col_start,
                             cells |-> LineCells(ln, hl_id)])]
    /\ resize_on_flush' =
           IF IsSome(resize_on_flush) THEN resize_on_flush
           ELSE Some([font       |-> Grid_get_font(grids[1]),
                      line_space |-> Grid_get_line_space(grids[1])])
    /\ last' = [LastOf("GridLine") EXCEPT !.grid = g,
                    !.seen = Some([id |-> hl_id,
                                   hl |-> HlDefs_get(hl_defs, hl_id)]),
                    !.arg = Some(ln)]
    /\ UNCHANGED << hl_defs, mode_infos, current_grid, timerVars, da_size,
                    messages, dispatch, crashed, batch >>

GridLine(g, hl_id, ln) ==
    /\ Handling
    /\ IF g \notin DOMAIN grids
       THEN PanicOnGrid("GridLine", g)
       ELSE /\ grids' = [grids EXCEPT ![g] =
                   Grid_put_line(@, [row |-> ln.row, col_start |-> ln.col_start,
                                     cells |-> LineCells(ln, hl_id)])]
            /\ last' = [LastOf("GridLine") EXCEPT !.grid = g,
                            !.seen = Some([id |-> hl_id,
                                           hl |-> HlDefs_get(hl_defs, hl_id)]),
                            !.arg = Some(ln)]
            /\ UNCHANGED << hl_defs, mode_infos, current_grid, resize_on_flush,
                            timerVars, da_size, messages, dispatch, crashed,
                            batch >>

\* RedrawEvent::GridCursorGoto.
GridCursorGoto(g, row, col) ==
    /\ Handling
    /\ IF g # current_grid
       THEN IF current_grid \notin DOMAIN grids
            THEN PanicOnGrid("GridCursorGoto", current_grid)
            ELSE LET off == [grids EXCEPT ![current_grid] =
                                Grid_set_active(@, FALSE)]
                 IN  /\ current_grid' = g
                     /\ IF g \notin DOMAIN grids
                        THEN /\ grids' = off
                             /\ crashed' = TRUE
                             /\ last' = [LastOf("GridCursorGoto") EXCEPT
                                            !.grid = g, !.missing = TRUE]
                        ELSE /\ grids' = [off EXCEPT ![g] =
                                    Grid_cursor_goto(Grid_set_active(@, TRUE),
                                                     row, col)]
                             /\ crashed' = FALSE
                             /\ last' = [LastOf("GridCursorGoto") EXCEPT
                                            !.grid = g]
                     /\ UNCHANGED << hl_defs, mode_infos, resize_on_flush,
                                     timerVars, da_size, messages, dispatch, batch >>
       ELSE IF g \notin DOMAIN grids
            THEN PanicOnGrid("GridCursorGoto", g)
            ELSE /\ grids' = [grids EXCEPT ![g] = Grid_cursor_goto(@, row, col)]
                 /\ last' = [LastOf("GridCursorGoto") EXCEPT !.grid = g]
                 /\ UNCHANGED << hl_defs, mode_infos, current_grid,
                                 resize_on_flush, timerVars, da_size, messages, dispatch,
                                 crashed, batch >>

\* RedrawEvent::GridResize.
GridResize(g, width, height) ==
    /\ Handling
    /\ IF g \notin DOMAIN grids
       THEN PanicOnGrid("GridResize", g)
       ELSE /\ grids' = [grids EXCEPT ![g] = Grid_resize(@, width, height)]
            /\ last' = [LastOf("GridResize") EXCEPT !.grid = g]
            /\ UNCHANGED << hl_defs, mode_infos, current_grid, resize_on_flush,
                            timerVars, da_size, messages, dispatch, crashed, batch >>

\* RedrawEvent::GridClear.
GridClear(g) ==
    /\ Handling
    /\ IF g \notin DOMAIN grids
       THEN PanicOnGrid("GridClear", g)
       ELSE /\ grids' = [grids EXCEPT ![g] = Grid_clear(@)]
            /\ last' = [LastOf("GridClear") EXCEPT !.grid = g]
            /\ UNCHANGED << hl_defs, mode_infos, current_grid, resize_on_flush,
                            timerVars, da_size, messages, dispatch, crashed,
                            batch >>

\* `grid.scroll(info.reg, info.rows, info.cols, &state.hl_defs)`: the
\* region and the shift the grid is handed.
scroll_args_swapped(info) == << info.reg, info.cols, info.rows >>

scroll_args(info) == << info.reg, info.rows, info.cols >>

\* RedrawEvent::GridScroll: the grid scrolls, and the GnvimScroll autocmd
\* command is sent to the remote process.
GridScroll(g, info) ==
    /\ Handling
    /\ IF g \notin DOMAIN grids
       THEN PanicOnGrid("GridScroll", g)
       ELSE /\ grids' = [grids EXCEPT ![g] =
                   Grid_scroll(@, scroll_args(info)[1], scroll_args(info)[2],
                               scroll_args(info)[3])]
            /\ last' = [LastOf("GridScroll") EXCEPT !.grid = g,
                            !.arg = Some(info),
                            !.cmd = Some("GnvimScroll")]
            /\ UNCHANGED << hl_defs, mode_infos, current_grid, resize_on_flush,
                            timerVars, da_size, messages, dispatch, crashed,
                            batch >>

\* `for grid in state.grids.values() { grid.redraw(&state.hl_defs); }` of
\* DefaultColorsSet: the highlight table each grid is redrawn with, where
\* `before` is the table the event found and `after` the table it left.
redraw_all_stale(gs, before, after) == [g \in DOMAIN gs |-> Some(before)]

redraw_all(gs, before, after) == [g \in DOMAIN gs |-> Some(after)]

\* RedrawEvent::DefaultColorsSet.
DefaultColorsSet(fg, bg, sp) ==
    /\ Handling
    /\ LET defs == [hl_defs EXCEPT !.default_fg = fg,
                                   !.default_bg = bg,
                                   !.default_sp = sp]
       IN  IF HlDefs_get(defs, 0) = None
           THEN /\ hl_defs' = defs             \* get_mut(&0).unwrap() panics
                /\ crashed' = TRUE
                /\ last' = [LastOf("DefaultColorsSet") EXCEPT
                               !.arg = Some(<< fg, bg, sp >>)]
           ELSE LET done == [defs EXCEPT !.hl_defs[0] =
                                Highlight_set_colors(@, fg, bg, sp)]
                IN  /\ hl_defs' = done
                    /\ crashed' = FALSE
                    /\ last' = [LastOf("DefaultColorsSet") EXCEPT
                                   !.arg = Some(<< fg, bg, sp >>),
                                   !.redraws = redraw_all(grids, hl_defs, done)]
    /\ batch' = [batch EXCEPT !.defs = Without(@, 0)]
    /\ UNCHANGED << grids, mode_infos, current_grid, resize_on_flush,
                    timerVars, da_size, messages, dispatch >>

\* RedrawEvent::HlAttrDefine.
HlAttrDefine(id, hl) ==
    /\ Handling
    /\ hl_defs' = HlDefs_insert(hl_defs, id, hl)
    /\ last' = [LastOf("HlAttrDefine") EXCEPT
                    !.arg = Some([id |-> id, hl |-> hl])]
    /\ batch' = [batch EXCEPT !.defs = (id :> hl) @@ @]
    /\ UNCHANGED << grids, mode_infos, current_grid, resize_on_flush,
                    timerVars, da_size, messages, dispatch, crashed >>

\* `state.resize_on_flush.take().unwrap_or_else(|| ResizeOptions { .. })`:
\* the pending options, or the font and line space of grid 1.
ResizeOptions_or_current_forgets(rof, gs) ==
    [font       |-> Grid_get_font(gs[1]),
     line_space |-> Grid_get_line_space(gs[1])]

ResizeOptions_or_current_defaults(rof, gs) ==
    IF IsSome(rof)
    THEN Unwrap(rof)
    ELSE [font |-> Font_default, line_space |-> 0]

ResizeOptions_or_current(rof, gs) ==
    IF IsSome(rof)
    THEN Unwrap(rof)
    ELSE [font       |-> Grid_get_font(gs[1]),
          line_space |-> Grid_get_line_space(gs[1])]

\* `Font::from_guifont(font).unwrap_or(Font::default())`.
Font_or_initial(s) ==
    IF IsSome(Font_from_guifont(s)) THEN Unwrap(Font_from_guifont(s))
    ELSE InitialFont

Font_or_default(s) ==
    IF IsSome(Font_from_guifont(s)) THEN Unwrap(Font_from_guifont(s))
    ELSE Font_default

Saturated(n) == IF n < 2 THEN n + 1 ELSE n

\* RedrawEvent::OptionSet, OptionSet::GuiFont.
OptionSetGuiFont(s) ==
    /\ Handling
    /\ IF ~IsSome(resize_on_flush) /\ 1 \notin DOMAIN grids
       THEN PanicOnGrid("GuiFont", 1)
       ELSE /\ resize_on_flush' =
                  Some([ResizeOptions_or_current(resize_on_flush, grids)
                            EXCEPT !.font = Font_or_default(s)])
            /\ last' = LastOf("GuiFont")
            /\ batch' = [batch EXCEPT !.font = Some(s), !.n = Saturated(@)]
            /\ UNCHANGED << grids, hl_defs, mode_infos, current_grid,
                            timerVars, da_size, messages, dispatch, crashed >>

\* RedrawEvent::OptionSet, OptionSet::LineSpace.
OptionSetLineSpace(val) ==
    /\ Handling
    /\ IF ~IsSome(resize_on_flush) /\ 1 \notin DOMAIN grids
       THEN PanicOnGrid("LineSpace", 1)
       ELSE /\ resize_on_flush' =
                  Some([ResizeOptions_or_current(resize_on_flush, grids)
                            EXCEPT !.line_space = val])
            /\ last' = LastOf("LineSpace")
            /\ batch' = [batch EXCEPT !.line_space = Some(val),
                                      !.n = Saturated(@)]
            /\ UNCHANGED << grids, hl_defs, mode_infos, current_grid,
                            timerVars, da_size, messages, dispatch, crashed >>

\* RedrawEvent::OptionSet, OptionSet::NotSupported.
OptionSetNotSupported_resets ==
    /\ Handling
    /\ resize_on_flush' = None
    /\ last' = LastOf("NotSupported")
    /\ UNCHANGED << grids, hl_defs, mode_infos, current_grid, timerVars,
                    da_size, messages, dispatch, crashed, batch >>

OptionSetNotSupported ==
    /\ Handling
    /\ last' = LastOf("NotSupported")
    /\ UNCHANGED << uiVars, timerVars, da_size, messages, dispatch, crashed, batch >>

\* RedrawEvent::ModeInfoSet.
ModeInfoSet(mode_info) ==
    /\ Handling
    /\ mode_infos' = mode_info
    /\ last' = LastOf("ModeInfoSet")
    /\ UNCHANGED << grids, hl_defs, current_grid, resize_on_flush, timerVars,
                    da_size, messages, dispatch, crashed, batch >>

\* RedrawEvent::ModeChange: `mode_infos.get(index).unwrap()`.
ModeChange(index) ==
    /\ Handling
    /\ IF index >= Len(mode_infos)
       THEN /\ crashed' = TRUE
            /\ UNCHANGED grids
       ELSE /\ grids' = [g \in DOMAIN grids |->
                            Grid_set_mode(grids[g], mode_infos[index + 1])]
            /\ crashed' = FALSE
    /\ last' = [LastOf("ModeChange") EXCEPT !.arg = Some(index)]
    /\ UNCHANGED << hl_defs, mode_infos, current_grid, resize_on_flush,
                    timerVars, da_size, messages, dispatch, batch >>

\* RedrawEvent::SetBusy.
SetBusy(busy) ==
    /\ Handling
    /\ grids' = [g \in DOMAIN grids |-> Grid_set_busy(grids[g], busy)]
    /\ last' = LastOf("SetBusy")
    /\ UNCHANGED << hl_defs, mode_infos, current_grid, resize_on_flush,
                    timerVars, da_size, messages, dispatch, crashed, batch >>

\* `for grid in state.grids.values() { grid.flush(&state.hl_defs); }` of
\* Flush: the cell metrics each grid is painted with, where `before` are the
\* grids the Flush found and `after` the grids it left.
flush_all_late(before, after) ==
    [g \in DOMAIN before |-> Some(after[g].cell_metrics)]

flush_all(before, after) ==
    [g \in DOMAIN before |-> Some(before[g].cell_metrics)]

\* RedrawEvent::Flush; `ok` tells whether the remote process answers the
\* request the Flush sends with Ok or with Err, which the request's callback
\* logs.
Flush(ok) ==
    /\ Handling
    /\ resize_on_flush' = Option_take(resize_on_flush)
    /\ batch' = EmptyBatch
    /\ IF IsSome(resize_on_flush)
       THEN LET opts    == Unwrap(resize_on_flush)
                updated == [g \in DOMAIN grids |->
                               Grid_update_cell_metrics(grids[g], opts.font,
                                                        opts.line_space)]
            IN  /\ grids' = updated
                /\ IF 1 \notin DOMAIN grids
                   THEN /\ crashed' = TRUE
                        /\ last' = [LastOf("Flush") EXCEPT
                               !.grid = 1, !.missing = TRUE,
                               !.flushed = flush_all(grids, updated),
                               !.updates = [g \in DOMAIN grids |-> 1],
                               !.batch = Some(batch)]
                        /\ UNCHANGED timerVars
                   ELSE /\ crashed' = FALSE
                        /\ resize_source_id' = Option_take(resize_source_id)
                        /\ sources' =
                              IF IsSome(resize_source_id)
                              THEN source_remove(sources,
                                                 Unwrap(resize_source_id))
                              ELSE sources
                        /\ UNCHANGED next_source
                        /\ resizes' = [resizes EXCEPT
                                          !.run = 0,
                                          !.failed = @ \/ ~ok]
                        /\ last' = [LastOf("Flush") EXCEPT
                               !.failed = ~ok,
                               !.flushed = flush_all(grids, updated),
                               !.sent = ui_try_resize_async(
                                   Grid_calc_size(updated[1], da_size)[1],
                                   Grid_calc_size(updated[1], da_size)[2]),
                               !.pre_size = Some(Grid_calc_size(grids[1], da_size)),
                               !.updates = [g \in DOMAIN grids |-> 1],
                               !.removed = resize_source_id,
                               !.batch = Some(batch)]
       ELSE /\ last' = [LastOf("Flush") EXCEPT
                            !.flushed = flush_all(grids, grids),
                            !.batch = Some(batch)]
            /\ UNCHANGED << grids, timerVars, crashed >>
    /\ UNCHANGED << hl_defs, mode_infos, current_grid, da_size, messages, dispatch >>

\* The redraw events that touch only the window title and the overlay
\* widgets (SetTitle, Popupmenu*, Tabline*, Cmdline*, Wildmenu*), and
\* RedrawEvent::Ignored and RedrawEvent::Unknown.
OtherEvent_clears_hl ==
    /\ Handling
    /\ hl_defs' = HlDefs_insert(HlDefs_default, 0, Highlight_default)
    /\ last' = LastOf("Other")
    /\ UNCHANGED << grids, mode_infos, current_grid, resize_on_flush,
                    timerVars, da_size, messages, dispatch, crashed, batch >>

OtherEvent ==
    /\ Handling
    /\ last' = LastOf("Other")
    /\ UNCHANGED << uiVars, timerVars, da_size, messages, dispatch, crashed,
                    batch >>

\* ------------------------------------------------------------------------
\* The message widgets (src/ui/messages.rs), given the dispatcher's
\* highlight table.  A message to show is its chunks' highlight ids and its
\* replace_last flag.

\* Messages kept in the list at a time.
MaxMessages == 2

\* Highlight::pango_markup(text, default_fg, default_bg, default_sp): the
\* markup of a chunk, held as what it is made from.
Highlight_pango_markup(hl, fg, bg, sp) ==
    [hl |-> hl, fg |-> fg, bg |-> bg, sp |-> sp]

\* The first chunk whose highlight id has no definition (0: none).
RECURSIVE FirstUndefined(_, _, _)
FirstUndefined(content, defs, i) ==
    IF i > Len(content) THEN 0
    ELSE IF HlDefs_get(defs, content[i]) = None THEN i
    ELSE FirstUndefined(content, defs, i + 1)

\* Message::new: the markup of the label, chunk by chunk.
Message_new(msg, defs) ==
    [i \in 1..Len(msg.content) |->
        Highlight_pango_markup(Unwrap(HlDefs_get(defs, msg.content[i])),
                               defs.default_fg, defs.default_bg,
                               defs.default_sp)]

\* `self.messages.pop()`.
Vec_pop(v) == IF v = << >> THEN v ELSE SubSeq(v, 1, Len(v) - 1)

\* MessagesHandler::show.
MessagesShow(msg) ==
    /\ Handling
    /\ LET kept == IF msg.replace_last THEN Vec_pop(messages.messages)
                   ELSE messages.messages
           bad  == FirstUndefined(msg.content, hl_defs, 1)
       IN  /\ Len(kept) < MaxMessages
           /\ IF bad # 0
              THEN /\ messages' = [messages EXCEPT !.messages = kept]
                   /\ crashed' = TRUE     \* hl_defs.get(&chunk.0).unwrap()
                   /\ last' = [LastOf("MsgShow") EXCEPT
                          !.arg = Some(msg),
                          !.seen = Some([id |-> msg.content[bad],
                                         hl |-> None])]
              ELSE /\ messages' =
                          [messages |-> Append(kept, Message_new(msg, hl_defs)),
                           visible  |-> TRUE]
                   /\ crashed' = FALSE
                   /\ last' = [LastOf("MsgShow") EXCEPT !.arg = Some(msg)]
    /\ UNCHANGED << uiVars, timerVars, da_size, dispatch, batch >>

\* MessagesHandler::clear.
MessagesClear ==
    /\ Handling
    /\ messages' = [messages |-> << >>, visible |-> FALSE]
    /\ last' = LastOf("MsgClear")
    /\ UNCHANGED << uiVars, timerVars, da_size, dispatch, crashed, batch >>

\* ------------------------------------------------------------------------
\* What the remote process and the window system send: `in` names the
\* values the events of a run are drawn from.
NextOn(in) ==
    \/ BeginRedraw
    \/ EndRedraw
    \/ Tick
    \/ \E size \in in.da_sizes : DaResize(size)
    \/ \E id \in DOMAIN sources, ok \in in.results : ResizeTimeout(id, ok)
    \/ \E g \in in.grid_ids, id \in in.hl_ids, ln \in in.lines :
          GridLine(g, id, ln)
    \/ \E g \in in.grid_ids, row \in in.cursor_rows, col \in in.cursor_cols :
          GridCursorGoto(g, row, col)
    \/ \E g \in in.grid_ids, sz \in in.grid_sizes : GridResize(g, sz[1], sz[2])
    \/ \E g \in in.grid_ids : GridClear(g)
    \/ \E g \in in.grid_ids, info \in in.scrolls : GridScroll(g, info)
    \/ \E c \in in.colors : DefaultColorsSet(c[1], c[2], c[3])
    \/ \E id \in in.hl_ids, hl \in in.hls : HlAttrDefine(id, hl)
    \/ \E s \in in.guifonts : OptionSetGuiFont(s)
    \/ \E val \in in.line_spaces : OptionSetLineSpace(val)
    \/ OptionSetNotSupported
    \/ \E mi \in in.mode_infos : ModeInfoSet(mi)
    \/ \E index \in in.mode_indexes : ModeChange(index)
    \/ \E busy \in in.busy : SetBusy(busy)
    \/ \E ok \in in.results : Flush(ok)
    \/ OtherEvent

\* A line of one blank cell at (0, 0), and a scroll of the region of the
\* one cell at (0, 0) by nothing.
BlankLine == [row |-> 0, col_start |-> 0, texts |-> << " " >>]
NoScroll == [reg |-> << 0, 1, 0, 1 >>, rows |-> 0, cols |-> 0]

\* Runs that vary the fonts, the line spaces and the drawing-area sizes.
ResizeInputs ==
    [da_sizes     |-> DaSizes,
     guifonts     |-> GuiFonts,
     line_spaces  |-> LineSpaces,
     grid_ids     |-> {1, 2},
     hl_ids       |-> {0},
     hls          |-> {Highlight_default},
     colors       |-> { << 1, 0, 1 >> },
     cursor_rows  |-> {0},
     grid_sizes   |-> { << 0, 0 >> },
     mode_infos   |-> { << >> },
     mode_indexes |-> {0},
     busy         |-> {FALSE},
     results      |-> {TRUE},
     cursor_cols  |-> {0},
     lines        |-> {BlankLine},
     scrolls      |-> {NoScroll}]

\* Runs that vary the grids addressed, the cursor, the modes and the busy
\* flag.
EventInputs ==
    [da_sizes     |-> {InitialDaSize},
     guifonts     |-> { [name |-> "Fira", h |-> Some(16)] },
     line_spaces  |-> {0},
     grid_ids     |-> {1, 2},
     hl_ids       |-> {0},
     hls          |-> {Highlight_default},
     colors       |-> { << 1, 0, 1 >> },
     cursor_rows  |-> {0, 1},
     grid_sizes   |-> { << 2, 2 >> },
     mode_infos   |-> { << >>, << "block" >> },
     mode_indexes |-> {0, 1},
     busy         |-> {TRUE},
     results      |-> {TRUE},
     cursor_cols  |-> {0},
     lines        |-> {BlankLine},
     scrolls      |-> {NoScroll}]

\* Runs that vary the highlight definitions and the default colors.
HlInputs ==
    [da_sizes     |-> {InitialDaSize},
     guifonts     |-> { [name |-> "Monospace", h |-> Some(12)] },
     line_spaces  |-> {0},
     grid_ids     |-> {1, 2},
     hl_ids       |-> {0, 5},
     hls          |-> {HlBold, HlReverse},
     colors       |-> { << 1, 0, 1 >>, << 2, 2, 0 >> },
     cursor_rows  |-> {0},
     grid_sizes   |-> { << 0, 0 >> },
     mode_infos   |-> { << >> },
     mode_indexes |-> {0},
     busy         |-> {FALSE},
     results      |-> {TRUE},
     cursor_cols  |-> {0},
     lines        |-> {BlankLine},
     scrolls      |-> {NoScroll}]

Next == NextOn(ResizeInputs)

Spec == Init /\ [][Next]_vars

NextEvents == NextOn(EventInputs)

SpecEvents == Init /\ [][NextEvents]_vars

NextHl == NextOn(HlInputs)

SpecHl == Init /\ [][NextHl]_vars

\* Runs in which the remote process answers resize requests with Ok or Err.
FailInputs ==
    [da_sizes     |-> DaSizes,
     guifonts     |-> { [name |-> "Fira", h |-> Some(16)] },
     line_spaces  |-> {0},
     grid_ids     |-> {1},
     hl_ids       |-> {0},
     hls          |-> {Highlight_default},
     colors       |-> { << 1, 0, 1 >> },
     cursor_rows  |-> {0},
     grid_sizes   |-> { << 0, 0 >> },
     mode_infos   |-> { << "block" >> },
     mode_indexes |-> {0},
     busy         |-> {FALSE},
     results      |-> {TRUE, FALSE},
     cursor_cols  |-> {0},
     lines        |-> {BlankLine},
     scrolls      |-> {NoScroll}]

NextFail == NextOn(FailInputs)

SpecFail == Init /\ [][NextFail]_vars

\* Runs that vary the cells written, the scrolls and the cursor position
\* on a grid of 3 columns and 2 rows.
Lines ==
    { [row |-> 0, col_start |-> 0, texts |-> << "a" >>],
      [row |-> 0, col_start |-> 1, texts |-> << "W", "" >>],
      [row |-> 1, col_start |-> 0, texts |-> << "W", "" >>],
      [row |-> 2, col_start |-> 0, texts |-> << "a" >>] }

Scrolls ==
    { [reg |-> << 0, 2, 0, 3 >>, rows |-> 1,  cols |-> 0],
      [reg |-> << 0, 2, 0, 3 >>, rows |-> -1, cols |-> 0],
      [reg |-> << 0, 1, 0, 2 >>, rows |-> 0,  cols |-> 1] }

CellInputs ==
    [da_sizes     |-> {InitialDaSize},
     guifonts     |-> { [name |-> "Fira", h |-> Some(16)] },
     line_spaces  |-> {0},
     grid_ids     |-> {1},
     hl_ids       |-> {0},
     hls          |-> {Highlight_default},
     colors       |-> { << 1, 0, 1 >> },
     cursor_rows  |-> {0, 1, 2},
     grid_sizes   |-> { << 3, 2 >> },
     mode_infos   |-> { << "block" >> },
     mode_indexes |-> {0},
     busy         |-> {FALSE},
     results      |-> {TRUE},
     cursor_cols  |-> {0, 1},
     lines        |-> Lines,
     scrolls      |-> Scrolls]

\* The events that reach a grid's cells, cursor and cell metrics, and the
\* tick.
NextCells ==
    \/ BeginRedraw
    \/ EndRedraw
    \/ Tick
    \/ \E g \in CellInputs.grid_ids, id \in CellInputs.hl_ids,
          ln \in CellInputs.lines :
          GridLine(g, id, ln)
    \/ \E g \in CellInputs.grid_ids, row \in CellInputs.cursor_rows,
          col \in CellInputs.cursor_cols :
          GridCursorGoto(g, row, col)
    \/ \E g \in CellInputs.grid_ids, sz \in CellInputs.grid_sizes :
          GridResize(g, sz[1], sz[2])
    \/ \E g \in CellInputs.grid_ids : GridClear(g)
    \/ \E g \in CellInputs.grid_ids, info \in CellInputs.scrolls :
          GridScroll(g, info)
    \/ \E s \in CellInputs.guifonts : OptionSetGuiFont(s)
    \/ \E ok \in CellInputs.results : Flush(ok)

SpecCells == Init /\ [][NextCells]_vars

\* Runs in which the Close message arrives.
CloseInputs == [FailInputs EXCEPT !.results = {TRUE}]

NextClose ==
    \/ NextOn(CloseInputs)
    \/ Close

SpecClose == Init /\ [][NextClose]_vars

\* Runs in which messages are shown and cleared.
MsgShows ==
    { [content |-> << 0 >>,    replace_last |-> FALSE],
      [content |-> << 0, 5 >>, replace_last |-> TRUE] }

MsgInputs ==
    [da_sizes     |-> {InitialDaSize},
     guifonts     |-> { [name |-> "Monospace", h |-> Some(12)] },
     line_spaces  |-> {0},
     grid_ids     |-> {1},
     hl_ids       |-> {5},
     hls          |-> {HlBold},
     colors       |-> { << 1, 0, 1 >> },
     cursor_rows  |-> {0},
     grid_sizes   |-> { << 0, 0 >> },
     mode_infos   |-> { << "block" >> },
     mode_indexes |-> {0},
     busy         |-> {FALSE},
     results      |-> {TRUE},
     cursor_cols  |-> {0},
     lines        |-> {BlankLine},
     scrolls      |-> {NoScroll}]

NextMsg ==
    \/ NextOn(MsgInputs)
    \/ \E msg \in MsgShows : MessagesShow(msg)
    \/ MessagesClear

SpecMsg == Init /\ [][NextMsg]_vars

\* ------------------------------------------------------------------------
\* Properties.

\* The Flush that was the last step, and the batch it closed.
FlushDone == last.ev = "Flush" /\ ~crashed
Closed == Unwrap(last.batch)
AllGrids(P(_)) == \A g \in DOMAIN grids : P(grids[g])
ActiveGrids == { g \in DOMAIN grids : grids[g].active }
Capacity ==
    [cols |-> Grid_calc_size(grids[1], da_size)[1],
     rows |-> Grid_calc_size(grids[1], da_size)[2]]

\* C1: from idle, one font-change option event followed by Flush sends
\* exactly one ui_try_resize, whose (cols, rows) are grid 1's capacity
\* under the cell metrics of the new font and the host pixel size.
C1_FontThenFlushSendsOneResize ==
    (FlushDone /\ Closed.n = 1 /\ IsSome(Closed.font)) =>
        LET cm == grids[1].cell_metrics
        IN  /\ cm.font = Font_or_default(Unwrap(Closed.font))
            /\ cm = CellMetrics_update(cm)
            /\ last.sent = << Capacity >>

C1_Witness ==
    /\ FlushDone /\ Closed.n = 1
    /\ Closed.font = Some([name |-> "Fira", h |-> Some(16)])
    /\ da_size = << 48, 60 >>
    /\ last.sent = << [cols |-> 6, rows |-> 3] >>
    /\ last.pre_size = Some(<< 8, 4 >>)

\* C2: however many GuiFont and LineSpace events arrive between two
\* Flushes, and in whatever order, the Flush calls update_cell_metrics once
\* per grid and sends one ui_try_resize, every grid then holds the last
\* font and the last line space received, and no option event by itself
\* updates metrics or sends a request.
C2_AppliedOncePerFlush ==
    /\ (FlushDone /\ Closed.n >= 1) =>
          /\ last.updates = [g \in DOMAIN grids |-> 1]
          /\ Len(last.sent) = 1
          /\ IsSome(Closed.font) =>
                AllGrids(LAMBDA gr : Grid_get_font(gr) =
                            Font_or_default(Unwrap(Closed.font)))
          /\ IsSome(Closed.line_space) =>
                AllGrids(LAMBDA gr : Grid_get_line_space(gr) =
                            Unwrap(Closed.line_space))
    /\ last.ev \in {"GuiFont", "LineSpace"} =>
          /\ last.sent = << >>
          /\ last.updates = [g \in DOMAIN grids |-> 0]

C2_Witness ==
    /\ FlushDone /\ Closed.n = 2
    /\ Closed.font = Some([name |-> "Fira", h |-> Some(16)])
    /\ Closed.line_space = Some(3)
    /\ Len(last.sent) = 1
    /\ Grid_get_font(grids[1]) = [name |-> "Fira", height |-> 16]
    /\ Grid_get_line_space(grids[1]) = 3

\* C3: every Flush leaves resize_on_flush None, and a Flush that no font or
\* line-space event preceded since the Flush before changes no grid, sends
\* no request and removes no timer.
C3_PendingClearedAtFlush ==
    [][last'.ev = "Flush" =>
          /\ resize_on_flush' = None
          /\ batch.n = 0 =>
                /\ grids' = grids
                /\ last'.sent = << >>
                /\ UNCHANGED timerVars]_vars

C3_Witness ==
    /\ FlushDone /\ Closed.n = 0
    /\ resize_on_flush = None
    /\ last.sent = << >>
    /\ Grid_get_font(grids[1]) # InitialFont

\* C4: resize_on_flush becomes Some only in a GuiFont or LineSpace step and
\* None only in a Flush step; every other step leaves it as it is.
PendingEvents == {"GuiFont", "LineSpace"}

C4_PendingChangesOnlyAtOptionAndFlush ==
    [][/\ (~IsSome(resize_on_flush) /\ IsSome(resize_on_flush')) =>
              last'.ev \in PendingEvents
       /\ (IsSome(resize_on_flush) /\ ~IsSome(resize_on_flush')) =>
              last'.ev = "Flush"
       /\ last'.ev \notin PendingEvents \cup {"Flush"} =>
              resize_on_flush' = resize_on_flush]_vars

C4_Witness ==
    /\ IsSome(resize_on_flush)
    /\ last.ev = "GridCursorGoto" /\ ~crashed
    /\ grids[1].cursor = << 1, 0 >>

\* C5 as stated: at a Flush with a pending change, a request is sent only
\* if grid 1's capacity changed.
C5_Original ==
    (FlushDone /\ Closed.n >= 1
        /\ last.pre_size = Some(Grid_calc_size(grids[1], da_size))) =>
        last.sent = << >>

\* C5 amended: at a Flush with a pending change the capacity of grid 1 is
\* computed once and one request carrying it is sent, whether or not the
\* capacity changed; a Flush with no pending change sends none.
C5_ResizeSentAtEveryPendingFlush ==
    FlushDone =>
        IF Closed.n >= 1
        THEN last.sent = << Capacity >>
        ELSE last.sent = << >>

C5_Witness ==
    /\ FlushDone /\ Closed.n >= 1
    /\ last.pre_size = Some(Grid_calc_size(grids[1], da_size))
    /\ last.sent = << [cols |-> 8, rows |-> 4] >>

\* C6: events apply in arrival order: a GridLine that follows
\* HlAttrDefine(id, H) in its batch finds H under id, and finds nothing
\* under an id no definition has arrived for.
GridEvents ==
    {"GridLine", "GridCursorGoto", "GridResize", "GridClear", "GridScroll"}

C6_DefinitionVisibleToLaterGridLine ==
    (last.ev = "GridLine" /\ ~last.missing) =>
        LET line == Unwrap(last.seen)
        IN  /\ line.id \in DOMAIN batch.defs =>
                  line.hl = Some(batch.defs[line.id])
            /\ line.id \notin DOMAIN hl_defs.hl_defs => line.hl = None

C6_Witness ==
    /\ last.ev = "GridLine" /\ ~last.missing
    /\ 5 \in DOMAIN batch.defs /\ batch.defs[5] = HlReverse
    /\ last.seen = Some([id |-> 5, hl |-> Some(HlReverse)])

\* C7 as stated: a GridCursorGoto to a grid other than current_grid is
\* applied whole: afterwards the process runs, current_grid is the new id,
\* the new grid is the one active grid and its cursor is at (row, col).
C7_Original ==
    [][(last'.ev = "GridCursorGoto" /\ last'.grid # current_grid) =>
          /\ ~crashed'
          /\ current_grid' = last'.grid
          /\ current_grid' \in DOMAIN grids'
          /\ { g \in DOMAIN grids' : grids'[g].active } = {current_grid'}]_vars

\* C8 as stated: in every state exactly one grid is active, the one
\* current_grid names.
C8_Original ==
    /\ current_grid \in DOMAIN grids
    /\ ActiveGrids = {current_grid}

\* C9 as stated: a grid event whose grid id names no grid is ignored: the
\* process runs on and the dispatcher state is unchanged.
C9_Original ==
    [][(last'.ev \in GridEvents /\ last'.missing) =>
          /\ ~crashed'
          /\ UNCHANGED uiVars]_vars

\* C10 as stated: once the remote process has announced grid id g (a
\* GridResize for g), the collection holds a grid for g.
C10_Original ==
    last.ev = "GridResize" => (last.grid \in DOMAIN grids /\ ~crashed)

\* C11: at most one debounce timer is armed; resize_source_id is Some exactly
\* when a timer is armed, and then names that timer; a resize signal that
\* finds a timer armed removes it and stores the new one.
C11_AtMostOneTimerArmed ==
    /\ Cardinality(DOMAIN sources) <= 1
    /\ IsSome(resize_source_id) <=> DOMAIN sources # {}
    /\ IsSome(resize_source_id) =>
          DOMAIN sources = {Unwrap(resize_source_id)}
    /\ (last.ev = "DaResize" /\ IsSome(last.removed)) =>
          /\ Unwrap(last.removed) \notin DOMAIN sources
          /\ Unwrap(last.removed) # Unwrap(resize_source_id)

C11_Witness ==
    /\ last.ev = "DaResize" /\ last.removed = Some(1)
    /\ resize_source_id = Some(2)
    /\ DOMAIN sources = {2}

C13_Original ==
    LET content == Unwrap(last.arg).content
        shown   == messages.messages[Len(messages.messages)]
    IN  \A i \in 1..(IF last.ev = "MsgShow" THEN Len(content) ELSE 0) :
            content[i] \notin DOMAIN hl_defs.hl_defs =>
                /\ ~crashed
                /\ messages.messages # << >>
                /\ shown[i].hl = hl_defs.hl_defs[0]

\* C14 as stated: each color entry 0 holds is the process-wide default of
\* its kind (a color entry 0 leaves unset falls back to that default).
C14_Original ==
    LET e == hl_defs.hl_defs[0]
    IN  /\ IsSome(e.foreground) => Unwrap(e.foreground) = hl_defs.default_fg
        /\ IsSome(e.background) => Unwrap(e.background) = hl_defs.default_bg
        /\ IsSome(e.special) => Unwrap(e.special) = hl_defs.default_sp

\* C15: DefaultColorsSet(fg, bg, sp) sets the three default colors and the
\* foreground, background and special of entry 0 to fg, bg, sp; every other
\* field of entry 0 and every other entry is as before.
ColorFields == {"foreground", "background", "special"}

C15_DefaultColorsRewriteOnlyColorsOfEntry0 ==
    [][last'.ev = "DefaultColorsSet" =>
          LET c   == Unwrap(last'.arg)
              old == hl_defs.hl_defs[0]
              new == hl_defs'.hl_defs[0]
          IN  /\ ~crashed'
              /\ hl_defs'.default_fg = c[1]
              /\ hl_defs'.default_bg = c[2]
              /\ hl_defs'.default_sp = c[3]
              /\ new.foreground = Some(c[1])
              /\ new.background = Some(c[2])
              /\ new.special = Some(c[3])
              /\ \A f \in DOMAIN old \ ColorFields : new[f] = old[f]
              /\ DOMAIN hl_defs'.hl_defs = DOMAIN hl_defs.hl_defs
              /\ \A id \in DOMAIN hl_defs.hl_defs \ {0} :
                    hl_defs'.hl_defs[id] = hl_defs.hl_defs[id]]_vars

C15_Witness ==
    /\ last.ev = "DefaultColorsSet" /\ last.arg = Some(<< 2, 2, 0 >>)
    /\ hl_defs.hl_defs[0] =
          [HlBold EXCEPT !.foreground = Some(2), !.background = Some(2),
                         !.special = Some(0)]
    /\ 5 \in DOMAIN hl_defs.hl_defs /\ hl_defs.hl_defs[5] = HlReverse

\* C16: HlAttrDefine(id, H) leaves H, whole, under id, whatever id held
\* before; the other entries and the default colors are as before.
C16_DefineReplacesWholesale ==
    [][last'.ev = "HlAttrDefine" =>
          LET a == Unwrap(last'.arg)
          IN  /\ HlDefs_get(hl_defs', a.id) = Some(a.hl)
              /\ DOMAIN hl_defs'.hl_defs = DOMAIN hl_defs.hl_defs \cup {a.id}
              /\ \A id \in DOMAIN hl_defs.hl_defs \ {a.id} :
                    HlDefs_get(hl_defs', id) = HlDefs_get(hl_defs, id)
              /\ hl_defs'.default_fg = hl_defs.default_fg
              /\ hl_defs'.default_bg = hl_defs.default_bg
              /\ hl_defs'.default_sp = hl_defs.default_sp]_vars

C16_Witness ==
    /\ last.ev = "HlAttrDefine"
    /\ last.arg = Some([id |-> 0, hl |-> HlReverse])
    /\ hl_defs.default_fg = 1
    /\ hl_defs.hl_defs[0] = HlReverse
    /\ 5 \in DOMAIN hl_defs.hl_defs /\ hl_defs.hl_defs[5] = HlBold

\* C17: a step that is neither HlAttrDefine nor DefaultColorsSet leaves the
\* highlight table (entries and default colors) as it is.
HlEvents == {"HlAttrDefine", "DefaultColorsSet"}

C17_HlTableChangedOnlyByHlEvents ==
    [][last'.ev \notin HlEvents => hl_defs' = hl_defs]_vars

C17_Witness ==
    /\ last.ev = "ResizeTimeout"
    /\ hl_defs.default_bg = 2
    /\ 5 \in DOMAIN hl_defs.hl_defs /\ hl_defs.hl_defs[5] = HlBold

\* C18: a DefaultColorsSet redraws every grid of the collection, with the
\* highlight table as the event leaves it: the new default colors, and
\* entry 0 holding them.
C18_AllGridsRedrawnWithNewDefaults ==
    (last.ev = "DefaultColorsSet" /\ ~crashed) =>
        LET c == Unwrap(last.arg)
        IN  /\ DOMAIN last.redraws = DOMAIN grids
            /\ \A g \in DOMAIN grids :
                  /\ IsSome(last.redraws[g])
                  /\ Unwrap(last.redraws[g]) = hl_defs
                  /\ Unwrap(last.redraws[g]).default_fg = c[1]
                  /\ Unwrap(last.redraws[g]).default_bg = c[2]
                  /\ Unwrap(last.redraws[g]).default_sp = c[3]
                  /\ Unwrap(last.redraws[g]).hl_defs[0].foreground = Some(c[1])

C18_Witness ==
    /\ last.ev = "DefaultColorsSet" /\ ~crashed
    /\ last.arg = Some(<< 2, 2, 0 >>)
    /\ Unwrap(last.redraws[1]).default_fg = 2
    /\ Unwrap(last.redraws[1]).hl_defs[0].background = Some(2)
    /\ Unwrap(last.redraws[1]).hl_defs[0].reverse

\* C19: a step whose request is answered with an error does what the same
\* step does when the request succeeds, and nothing more: the process runs
\* on, no timer is left armed or newly armed to send again, at a timer
\* expiry the dispatcher state is untouched, and at a Flush the pending
\* options are taken and the grids hold the new metrics.  After a failure
\* every timer expiry and every Flush with a pending change still sends one
\* request carrying grid 1's capacity.
C19_FailedRequestOnlyLogged ==
    /\ [][last'.failed =>
             /\ ~crashed'
             /\ Len(last'.sent) = 1
             /\ DOMAIN sources' = {}
             /\ resize_source_id' = None
             /\ next_source' = next_source
             /\ UNCHANGED << hl_defs, mode_infos, current_grid >>
             /\ last'.ev = "ResizeTimeout" =>
                   UNCHANGED << grids, resize_on_flush >>
             /\ (last'.ev = "Flush" /\ IsSome(resize_on_flush)) =>
                   /\ resize_on_flush' = None
                   /\ \A g \in DOMAIN grids :
                         grids'[g] = Grid_update_cell_metrics(grids[g],
                                         Unwrap(resize_on_flush).font,
                                         Unwrap(resize_on_flush).line_space)]_vars
    /\ [](resizes.failed =>
             ((last.ev = "ResizeTimeout" \/ (FlushDone /\ Closed.n >= 1)) =>
                  last.sent = << Capacity >>))

C19_Witness ==
    /\ resizes.failed /\ ~last.failed
    /\ last.ev = "ResizeTimeout" /\ last.arg = Some(2)
    /\ last.sent = << [cols |-> 16, rows |-> 4] >>

\* C20 as stated: a ModeChange whose index is no position of mode_infos is
\* dropped and the process runs on.
C20_Original ==
    (last.ev = "ModeChange" /\ Unwrap(last.arg) >= Len(mode_infos)) =>
        ~crashed

\* ------------------------------------------------------------------------
\* The cursor rectangle and the cell buffer.

\* C21: the cursor rectangle of every grid is (x, y, w, h) with
\* x = col * cell width, y = row * cell height, h = one cell height, and
\* w = two cell widths exactly when the run covering column col + 1 of the
\* cursor's row is double-width, one cell width otherwise.
C21_CursorRectFollowsMetricsAndDoubleWidth ==
    \A g \in DOMAIN grids :
        LET ctx  == grids[g]
            cm   == ctx.cell_metrics
            row  == ctx.cursor[1]
            col  == ctx.cursor[2]
            rect == Grid_get_cursor_rect(ctx)
            dw   == /\ row < Len(ctx.rows)
                    /\ ctx.rows[row + 1][col + 2].double_width
        IN  /\ rect[1] = col * cm.width
            /\ rect[2] = row * cm.height
            /\ rect[4] = cm.height
            /\ cm.width > 0
            /\ dw => rect[3] = 2 * cm.width
            /\ ~dw => rect[3] = cm.width

\* The cursor sits at row 1, column 0, in front of a double-width cell under
\* the metrics of the font set by the batch: its rectangle is two cells wide.
C21_Witness ==
    /\ ~crashed /\ FlushDone
    /\ grids[1].cursor = << 1, 0 >>
    /\ Len(grids[1].rows) = 2
    /\ grids[1].rows[2][2].double_width
    /\ grids[1].cell_metrics.font = [name |-> "Fira", height |-> 16]
    /\ Grid_get_cursor_rect(grids[1])[3] = 2 * grids[1].cell_metrics.width
    /\ Grid_get_cursor_rect(grids[1])[2] = grids[1].cell_metrics.height

\* C23: an event of a batch that holds no font or line-space option event,
\* handled with no change pending, changes no grid's cell metrics, leaves
\* calc_size() as it was, leaves nothing pending and sends no resize
\* request, the Flush that closes the batch included.
C23_ContentBatchKeepsMetricsAndSendsNothing ==
    [][(/\ dispatch = "redraw"
        /\ ~IsSome(resize_on_flush)
        /\ last'.ev \notin {"GuiFont", "LineSpace"})
       => /\ \A g \in DOMAIN grids :
                /\ g \in DOMAIN grids'
                /\ grids'[g].cell_metrics = grids[g].cell_metrics
          /\ Grid_calc_size(grids'[1], da_size')
                = Grid_calc_size(grids[1], da_size)
          /\ ~IsSome(resize_on_flush')
          /\ last'.sent = << >>
          /\ last'.updates = [g \in DOMAIN grids |-> 0]]_vars

\* A Flush closed a batch of line writes alone: the cell is on the grid and
\* nothing was sent.
C23_Witness ==
    /\ ~crashed /\ FlushDone
    /\ Closed.n = 0
    /\ Len(grids[1].rows) = 2
    /\ grids[1].rows[1][1].text = "a"
    /\ grids[1].cell_metrics = Context_new.cell_metrics
    /\ last.sent = << >>
    /\ last.pre_size = None

\* C25: a GridScroll of a region by (rows, cols) leaves every cell outside
\* the region as it was; a cell of the region ends equal to the cell that
\* was at (row - rows, col - cols) before the scroll when that cell lay in
\* the region, and blank otherwise.  Nothing else of the dispatcher changes.
C25_ScrollShiftsTheRegionOnly ==
    [][(last'.ev = "GridScroll" /\ ~crashed' /\ IsSome(last'.arg))
       => LET info == Unwrap(last'.arg)
              g    == last'.grid
              old  == grids[g].rows
              new  == grids'[g].rows
          IN  /\ Len(new) = Len(old)
              /\ \A r \in 1..Len(old) :
                    /\ Len(new[r]) = Len(old[r])
                    /\ \A c \in 1..Len(old[r]) :
                          new[r][c] =
                              IF ~InRegion(info.reg, r - 1, c - 1)
                              THEN old[r][c]
                              ELSE IF InRegion(info.reg, r - 1 - info.rows,
                                               c - 1 - info.cols)
                              THEN old[r - info.rows][c - info.cols]
                              ELSE Cell_blank
              /\ grids'[g] = [grids[g] EXCEPT !.rows = new]
              /\ \A h \in DOMAIN grids \ {g} : grids'[h] = grids[h]
              /\ UNCHANGED << hl_defs, mode_infos, current_grid,
                              resize_on_flush >>]_vars

\* The region of both rows was scrolled by one row: the cell written at
\* (0, 0) is now at (1, 0), and row 0 is blank.
C25_Witness ==
    /\ ~crashed
    /\ last.ev = "GridScroll"
    /\ Unwrap(last.arg) = [reg |-> << 0, 2, 0, 3 >>, rows |-> 1, cols |-> 0]
    /\ Len(grids[1].rows) = 2
    /\ grids[1].rows[2][1].text = "a"
    /\ grids[1].rows[2][2].text = "W"
    /\ grids[1].rows[1] = Row_new(3)

\* C28: when the cursor's row is not one of the grid's rows, the cursor
\* rectangle is still computed (no panic follows the cursor move, and the
\* rectangle is four numbers) and it is exactly one cell wide.
C28_CursorRowOutOfRangeIsSingleWidth ==
    \A g \in DOMAIN grids :
        LET ctx  == grids[g]
            rect == Grid_get_cursor_rect(ctx)
        IN  ctx.cursor[1] >= Len(ctx.rows) =>
                /\ rect \in Nat \X Nat \X Nat \X Nat
                /\ rect[3] = ctx.cell_metrics.width
                /\ rect[3] > 0
                /\ (last.ev = "GridCursorGoto" /\ last.grid = g) => ~crashed

\* The grid holds two rows and the cursor was moved to row 2.
C28_Witness ==
    /\ ~crashed
    /\ last.ev = "GridCursorGoto"
    /\ Len(grids[1].rows) = 2
    /\ grids[1].cursor = << 2, 1 >>
    /\ grids[1].rows[2][2].double_width
    /\ Grid_get_cursor_rect(grids[1])[3] = grids[1].cell_metrics.width

\* ------------------------------------------------------------------------
\* Cell metrics, the debounce timer and the Flush.

\* C22: the cell metrics of every grid are the ones CellMetrics::update
\* derives from the font and line space stored with them: height is
\* ascent + descent, and ascent and descent are the font's values plus
\* half the line space.  They change only at a Flush that applies a
\* pending change, to the metrics of the pending font and line space.
C22_MetricsDerivedFromStoredFontAndLineSpace ==
    /\ [](\A g \in DOMAIN grids :
            LET cm == grids[g].cell_metrics
                fm == PangoMetrics(cm.font)
            IN  /\ cm.height = cm.ascent + cm.decent
                /\ cm.ascent = 2 * fm.ascent + cm.line_space
                /\ cm.decent = 2 * fm.descent + cm.line_space
                /\ cm.width = 2 * fm.digit_width)
    /\ [][\A g \in DOMAIN grids :
            (g \in DOMAIN grids'
                /\ grids'[g].cell_metrics # grids[g].cell_metrics)
            => /\ last'.ev = "Flush"
               /\ IsSome(resize_on_flush)
               /\ grids'[g].cell_metrics.font = Unwrap(resize_on_flush).font
               /\ grids'[g].cell_metrics.line_space
                     = Unwrap(resize_on_flush).line_space]_vars

\* Fira at height 16 with line space 3: ascent 16 + 1.5, descent 4 + 1.5
\* and height 23 pixels, after the drawing area was resized.
C22_Witness ==
    /\ ~crashed
    /\ last.ev = "DaResize"
    /\ grids[1].cell_metrics =
          [font |-> [name |-> "Fira", height |-> 16], line_space |-> 3,
           ascent |-> 35, decent |-> 11, height |-> 46, width |-> 16]

\* C26: a Flush that applies a pending change takes the stored timer id
\* and removes that source, so that no timer is armed when its own request
\* is sent and only a timer armed later can fire; a Flush with nothing
\* pending leaves the timer as it was and sends nothing.
C26_PendingFlushCancelsArmedTimer ==
    /\ [][(last'.ev = "Flush" /\ ~crashed' /\ dispatch = "redraw")
          => IF IsSome(resize_on_flush)
             THEN /\ last'.removed = resize_source_id
                  /\ resize_source_id' = None
                  /\ DOMAIN sources' = {}
                  /\ Len(last'.sent) = 1
             ELSE /\ UNCHANGED timerVars
                  /\ last'.sent = << >>]_vars
    /\ [][(last'.ev = "ResizeTimeout" /\ IsSome(last'.arg)
              /\ last # last')
          => Unwrap(last'.arg) \in DOMAIN sources]_vars

\* A Flush with a pending change found timer 1 armed and removed it.
C26_Witness ==
    /\ FlushDone
    /\ last.removed = Some(1)
    /\ Len(last.sent) = 1
    /\ DOMAIN sources = {}
    /\ resize_source_id = None

\* C27: once the timer armed last has fired, no source id is stored until
\* a resize signal arms the next one, and a fired timer is no longer among
\* the sources; every id a resize signal or a Flush hands to source_remove
\* is the id of a timer that is armed and has not fired.
C27_NoSourceRemovedAfterItFired ==
    /\ [](IsSome(resize_source_id) =>
            /\ resizes.fired = None
            /\ Unwrap(resize_source_id) \in DOMAIN sources)
    /\ [](IsSome(resizes.fired) =>
            Unwrap(resizes.fired) \notin DOMAIN sources)
    /\ [][(last'.ev \in {"DaResize", "Flush"} /\ IsSome(last'.removed)
              /\ last # last')
          => /\ resizes.fired = None
             /\ Unwrap(last'.removed) \in DOMAIN sources]_vars

\* Timer 1 fired, and the Flush with a pending change that followed found
\* no stored id and removed nothing.
C27_Witness ==
    /\ FlushDone
    /\ Len(last.sent) = 1
    /\ last.removed = None
    /\ resizes.fired = Some(1)
    /\ resize_source_id = None

\* C29: a GuiFont event leaves pending the parsed font with the line space
\* that was pending, or grid 1's line space when nothing was pending; a
\* LineSpace event leaves pending its value with the font that was pending,
\* or grid 1's font when nothing was pending; the Flush applies the pending
\* pair to the grids.
C29_OptionEventOverwritesOnlyItsField ==
    /\ [][(last'.ev = "GuiFont" /\ ~crashed' /\ IsSome(resize_on_flush')
              /\ IsSome(batch'.font))
          => LET new == Unwrap(resize_on_flush')
             IN  /\ new.font = Font_or_default(Unwrap(batch'.font))
                 /\ new.line_space =
                       IF IsSome(resize_on_flush)
                       THEN Unwrap(resize_on_flush).line_space
                       ELSE Grid_get_line_space(grids[1])]_vars
    /\ [][(last'.ev = "LineSpace" /\ ~crashed' /\ IsSome(resize_on_flush')
              /\ IsSome(batch'.line_space))
          => LET new == Unwrap(resize_on_flush')
             IN  /\ new.line_space = Unwrap(batch'.line_space)
                 /\ new.font =
                       IF IsSome(resize_on_flush)
                       THEN Unwrap(resize_on_flush).font
                       ELSE Grid_get_font(grids[1])]_vars
    /\ [][(last'.ev = "Flush" /\ ~crashed' /\ IsSome(resize_on_flush))
          => \A g \in DOMAIN grids' :
                /\ Grid_get_font(grids'[g]) = Unwrap(resize_on_flush).font
                /\ Grid_get_line_space(grids'[g])
                      = Unwrap(resize_on_flush).line_space]_vars

\* A batch of one GuiFont event was flushed on a grid whose line space was
\* 3: the font is the new one and the line space is still 3.
C29_Witness ==
    /\ FlushDone
    /\ Closed.n = 1
    /\ Closed.font = Some([name |-> "Fira", h |-> Some(16)])
    /\ Closed.line_space = None
    /\ Grid_get_font(grids[1]) = [name |-> "Fira", height |-> 16]
    /\ Grid_get_line_space(grids[1]) = 3

\* C30: at a Flush with a pending change every grid is painted with the
\* cell metrics it had before the Flush, every grid then gets the pending
\* font and line space by one update, the request sent carries the capacity
\* of grid 1 under the new metrics, and all grids end with the same font
\* and line space.
C30_FlushPaintsThenUpdatesThenRequests ==
    [][(last'.ev = "Flush" /\ ~crashed' /\ IsSome(resize_on_flush))
       => LET opts == Unwrap(resize_on_flush)
              size == Grid_calc_size(grids'[1], da_size')
          IN  /\ DOMAIN grids' = DOMAIN grids
              /\ \A g \in DOMAIN grids :
                    /\ last'.flushed[g] = Some(grids[g].cell_metrics)
                    /\ last'.updates[g] = 1
                    /\ grids'[g].cell_metrics =
                          CellMetrics_update(
                              [grids[g].cell_metrics EXCEPT
                                  !.font = opts.font,
                                  !.line_space = opts.line_space])
              /\ last'.sent = << [cols |-> size[1], rows |-> size[2]] >>
              /\ \A g, h \in DOMAIN grids' :
                    /\ Grid_get_font(grids'[g]) = Grid_get_font(grids'[h])
                    /\ Grid_get_line_space(grids'[g])
                          = Grid_get_line_space(grids'[h])]_vars

\* The Flush painted grid 1 with the metrics of the initial font, left it
\* with those of the new font, and sent the capacity under the new ones.
C30_Witness ==
    /\ FlushDone
    /\ IsSome(last.flushed[1])
    /\ Unwrap(last.flushed[1]).font = InitialFont
    /\ Grid_get_font(grids[1]) = [name |-> "Fira", height |-> 16]
    /\ last.sent = << Capacity >>
    /\ last.pre_size # Some(<< Capacity.cols, Capacity.rows >>)

\* ------------------------------------------------------------------------
\* Close.

\* C24: once Close was received the receiver is detached for good: no
\* redraw batch begins, and the dispatcher state and the messages stay as
\* they are, while the timers go on.  The Close itself changes neither the
\* dispatcher state nor the debounce timer, armed or not, nor what is
\* pending.
C24_CloseStopsTheHandlerAndWaitsForNothing ==
    /\ [](last.ev = "Close" => dispatch = "closed")
    /\ [][dispatch = "closed"
          => /\ dispatch' = "closed"
             /\ last'.ev \in {"Close", "Tick", "DaResize", "ResizeTimeout"}
             /\ UNCHANGED << uiVars, messages, batch >>]_vars
    /\ [][(last'.ev = "Close" /\ dispatch = "idle")
          => UNCHANGED << uiVars, timerVars, da_size, messages >>]_vars

\* Close arrived while a change was pending and a timer was armed; both are
\* still there.
C24_Witness ==
    /\ ~crashed
    /\ last.ev = "Close"
    /\ dispatch = "closed"
    /\ IsSome(resize_on_flush)
    /\ IsSome(resize_source_id)
    /\ DOMAIN sources # {}

\* ------------------------------------------------------------------------
\* The dispatch thread.

\* C31: while a redraw message is being handled, no tick, no resize signal,
\* no timer expiry and no other message is taken up, and a tick, a resize
\* signal or a timer expiry runs with no message half handled and leaves
\* none half handled; the tick acts on the grid current_grid names and on
\* nothing of the dispatcher state, and that grid exists whenever the tick
\* runs.
C31_HandlersRunToCompletionAndTickFindsItsGrid ==
    /\ [][dispatch = "redraw"
          => last'.ev \notin {"Tick", "DaResize", "ResizeTimeout",
                              "BeginRedraw", "Close"}]_vars
    /\ [][(last'.ev \in {"Tick", "DaResize", "ResizeTimeout"})
          => /\ dispatch # "redraw"
             /\ dispatch' = dispatch]_vars
    /\ [][last'.ev = "Tick"
          => /\ current_grid \in DOMAIN grids
             /\ last'.grid = current_grid
             /\ ~last'.missing
             /\ ~crashed'
             /\ UNCHANGED << uiVars, timerVars, messages >>]_vars
    /\ [](~crashed => current_grid \in DOMAIN grids)

\* A tick ran after a batch that moved the cursor of grid 1.
C31_Witness ==
    /\ ~crashed
    /\ last.ev = "Tick"
    /\ last.grid = 1
    /\ current_grid = 1
    /\ grids[1].cursor = << 1, 0 >>
    /\ dispatch = "idle"

\* ------------------------------------------------------------------------
\* Options that cannot be used.

\* C32: a GuiFont event whose value does not parse leaves a change pending
\* whose font is the default font, and touches no grid and sends nothing
\* by itself; the Flush that finds the default font pending gives it to
\* every grid and sends one resize request; an option that is not
\* supported changes nothing.
C32_UnparsableFontPendsTheDefaultFont ==
    /\ [][(/\ last'.ev = "GuiFont" /\ ~crashed'
           /\ IsSome(batch'.font)
           /\ ~IsSome(Font_from_guifont(Unwrap(batch'.font))))
          => /\ IsSome(resize_on_flush')
             /\ Unwrap(resize_on_flush').font = Font_default
             /\ last'.sent = << >>
             /\ UNCHANGED << grids, timerVars >>]_vars
    /\ [][(/\ last'.ev = "Flush" /\ ~crashed'
           /\ IsSome(resize_on_flush)
           /\ Unwrap(resize_on_flush).font = Font_default)
          => /\ \A g \in DOMAIN grids' :
                   Grid_get_font(grids'[g]) = Font_default
             /\ Len(last'.sent) = 1
             /\ ~IsSome(resize_on_flush')]_vars
    /\ [][last'.ev = "NotSupported"
          => UNCHANGED << uiVars, timerVars, da_size, messages, dispatch,
                          crashed, batch >>]_vars

\* A batch whose only option event was the unparsable "Fira:h0" was
\* flushed: grid 1, painted with another font, now holds the default font,
\* and one request was sent.
C32_Witness ==
    /\ FlushDone
    /\ Closed.n = 1
    /\ Closed.font = Some([name |-> "Fira", h |-> Some(0)])
    /\ IsSome(last.flushed[1])
    /\ Unwrap(last.flushed[1]).font # Font_default
    /\ Grid_get_font(grids[1]) = Font_default
    /\ Len(last.sent) = 1

\* ------------------------------------------------------------------------
\* The message list.

\* C33 as stated: every show drops the last stored message first when
\* replace_last is set (nothing when the list is empty) and then appends
\* exactly one message, every clear empties the list, and the container is
\* visible exactly when the list is not empty.
C33_Original ==
    /\ [][(last'.ev = "MsgShow" /\ IsSome(last'.arg))
          => LET msg  == Unwrap(last'.arg)
                 kept == IF msg.replace_last /\ messages.messages # << >>
                         THEN SubSeq(messages.messages, 1,
                                     Len(messages.messages) - 1)
                         ELSE messages.messages
             IN  /\ Len(messages'.messages) = Len(kept) + 1
                 /\ SubSeq(messages'.messages, 1, Len(kept)) = kept]_vars
    /\ [][last'.ev = "MsgClear" => messages'.messages = << >>]_vars
    /\ [](messages.visible <=> messages.messages # << >>)

\* ------------------------------------------------------------------------
\* When the new cell metrics take effect.

=========================================================================
